---- MODULE Spec2Model ----
(***************************************************************************)
(* Model of inf_llm/attention/context_manager.py: the ContextManager of    *)
(* InfLLM.  Tokens are represented by their absolute position in the       *)
(* stream (0, 1, 2, ...), a tensor along the sequence axis by the sequence *)
(* of the tokens it holds.  Tensor values are abstracted: the block ids    *)
(* returned by top-k and the block scores returned by the attention        *)
(* primitive are nondeterministic inputs.                                  *)
(***************************************************************************)
EXTENDS Integers, Sequences, FiniteSets, TLC

VARIABLES
  cfg,                  \* construction parameters (ContextManager.__init__)
  plan,                 \* input lengths still to be fed by a scripted caller
  fed,                  \* sum of the input lengths of the append calls made
  pc,                   \* position of the caller / of append()
  initialized,
  length,
  init_exc,
  init_k,
  local_k,
  global_remainder,
  global_remainder_st,
  global_remainder_ed,
  num_global_block,
  block_k,              \* VectorTensor.length of the representative index
  input_length,         \* locals of append()
  st,
  kv_length,
  use_chunk_topk,       \* batched top-k: _use_chunk_topk, calc_cur_list,
  calc_cur_list,        \*   _topk_cur, _topk_calc_cur, _cached_topk
  topk_cur,
  topk_calc_cur,
  cached_topk,
  topk_calls,           \* get_batched_topk calls made by the running append call
  readouts,             \* host readouts (.cpu()) of top-k indices made by them
  block_topk,           \* locals of _append()
  call_selected,        \* block ids selected so far by the running append call
  glb_score,
  recency,              \* the recency tickets as the eviction policy defines them
  cache,                \* global_blocks, cached_blocks, load_count, buffer map
  GLOBAL_STREAM,        \* the module-level global stream: "none" or "stream"
  issued_on,            \* stream the chunk's top-k, loads and assembly were issued on
  waited,               \* the compute stream has waited for the global stream since
  handles,              \* the TransferingTensor objects of a client of the class
  access,               \* the last access to one of them
  ref                   \* the cache of a second run: same loads, other scores

bookVars == <<initialized, length, init_exc, init_k, local_k, global_remainder,
              global_remainder_st, global_remainder_ed, num_global_block, block_k>>
callVars == <<input_length, st, kv_length>>
topkVars == <<use_chunk_topk, calc_cur_list, topk_cur, topk_calc_cur, cached_topk,
              topk_calls, readouts>>
streamVars == <<GLOBAL_STREAM, issued_on, waited>>
transferVars == <<handles, access>>
vars == <<cfg, plan, fed, pc, bookVars, callVars, topkVars, block_topk, call_selected,
          glb_score, recency, cache, ref, streamVars, transferVars>>

(***************************************************************************)
(* Bounds of the model.                                                    *)
(***************************************************************************)
MaxTotal == 6      \* tokens fed to one manager by the free caller
MaxIn == 3         \* longest input of one append call of the free caller
MaxStream == 8     \* tokens fed by the uniform (streaming) caller
MaxBatchTotal == 7 \* tokens fed to one manager with batched top-k
MaxBatchIn == 5    \* longest input of one append call with batched top-k
MaxHandles == 3    \* TransferingTensor objects made by a client of the class

(***************************************************************************)
(* Helpers.                                                                *)
(***************************************************************************)
Min(a, b) == IF a < b THEN a ELSE b
Max(a, b) == IF a > b THEN a ELSE b
Range(s) == {s[i] : i \in 1..Len(s)}
Tokens(from, n) == [i \in 1..n |-> from + i - 1]
Slice(s, a, b) == SubSeq(s, a + 1, Min(b, Len(s)))   \* python s[a:b], 0 <= a
Last(s, n) == SubSeq(s, Max(Len(s) - n, 0) + 1, Len(s)) \* python s[-n:], n > 0

RECURSIVE Sum(_)
Sum(s) == IF s = <<>> THEN 0 ELSE Head(s) + Sum(Tail(s))

Units == 0 .. (cfg.num_units - 1)

\* chunk_topk_calc = None
None == -1

\* float("inf") and the cap 1e8 of get_global_hidden_and_mask
Inf == 1000000000
ScoreCap == 100000000

(***************************************************************************)
(* cached_blocks[u] is a python dict: a sequence of <<id, value>> pairs in *)
(* insertion order.                                                        *)
(***************************************************************************)
DictKeys(d) == {d[i][1] : i \in 1..Len(d)}
DictHas(d, k) == k \in DictKeys(d)
DictGet(d, k) == LET i == CHOOSE j \in 1..Len(d) : d[j][1] = k IN d[i][2]
DictSet(d, k, v) ==
  IF DictHas(d, k)
    THEN [i \in 1..Len(d) |-> IF d[i][1] = k THEN <<k, v>> ELSE d[i]]
    ELSE Append(d, <<k, v>>)
DictPop(d, k) == SelectSeq(d, LAMBDA e : e[1] # k)
DictKeyList(d) == [i \in 1..Len(d) |-> d[i][1]]

RemoveAt(s, i) == SubSeq(s, 1, i - 1) \o SubSeq(s, i + 1, Len(s))

\* mutant: ascending by value, entries of equal value by ascending key
RECURSIVE SortAscById(_)
SortAscById(s) ==
  IF s = <<>> THEN <<>>
  ELSE LET i == CHOOSE j \in 1..Len(s) :
                  \A k \in 1..Len(s) :
                    s[j][2] < s[k][2] \/ (s[j][2] = s[k][2] /\ s[j][1] <= s[k][1])
       IN <<s[i]>> \o SortAscById(RemoveAt(s, i))

\* list.sort(key=lambda x: x[1]) : stable, ascending by value
RECURSIVE SortAsc(_)
SortAsc(s) ==
  IF s = <<>> THEN <<>>
  ELSE LET i == CHOOSE j \in 1..Len(s) :
                  /\ \A k \in 1..Len(s) : s[j][2] <= s[k][2]
                  /\ \A k \in 1..(j - 1) : s[k][2] # s[j][2]
       IN <<s[i]>> \o SortAsc(RemoveAt(s, i))

\* list.sort(key=lambda x: x[1], reverse=True) : stable, descending by value
RECURSIVE SortDesc(_)
SortDesc(s) ==
  IF s = <<>> THEN <<>>
  ELSE LET i == CHOOSE j \in 1..Len(s) :
                  /\ \A k \in 1..Len(s) : s[j][2] >= s[k][2]
                  /\ \A k \in 1..(j - 1) : s[k][2] # s[j][2]
       IN <<s[i]>> \o SortDesc(RemoveAt(s, i))

(***************************************************************************)
(* BlockStore: load_block, offload_block, remove_lru_blocks.  They act on  *)
(* a cache record c with the fields global_blocks, cached_blocks,          *)
(* load_count, ... ; c.err records a failed assertion or exception.        *)
(***************************************************************************)
Fail(c, e) == IF c.err = "none" THEN [c EXCEPT !.err = e] ELSE c

\* a fresh recency ticket for lru / fifo, the score 0 for lru-s
LoadValue(c) == IF cfg.cache_strategy \in {"fifo", "lru"} THEN c.load_count ELSE 0

load_block(c, b, i) ==
  LET cb == c.cached_blocks[b]
      blk == c.global_blocks[b][i + 1]
  IN IF DictHas(cb, i)
       THEN LET c1 == IF cfg.cache_strategy = "lru"
                        THEN [c EXCEPT !.cached_blocks[b] = DictSet(cb, i, c.load_count),
                                       !.load_count = @ + 1]
                        ELSE c
            IN IF blk.is_cuda THEN c1 ELSE Fail(c1, "AssertionError: is_cuda")
       ELSE IF blk.is_cuda
              THEN Fail(c, "AssertionError: not is_cuda")
              ELSE [c EXCEPT !.global_blocks[b][i + 1].is_cuda = TRUE,
                             !.cached_blocks[b] = DictSet(cb, i, LoadValue(c)),
                             !.load_count = IF cfg.cache_strategy \in {"fifo", "lru"}
                                              THEN @ + 1 ELSE @]

\* mutant: the offloaded block is not removed from cached_blocks
offload_block_keep(c, u, i) ==
  IF ~DictHas(c.cached_blocks[u], i)
    THEN c
    ELSE [c EXCEPT !.global_blocks[u][i + 1].is_cuda = FALSE,
                   !.evicted[u] = Append(@, i)]

\* mutant: the offloaded block is removed from cached_blocks but its storage
\* stays on the device
offload_block_no_move(c, u, i) ==
  IF ~DictHas(c.cached_blocks[u], i)
    THEN c
    ELSE [c EXCEPT !.cached_blocks[u] = DictPop(@, i),
                   !.evicted[u] = Append(@, i)]

\* offload_block returns False and changes nothing for an id that is not
\* resident; the transfer to the host asserts that the storage is on the
\* device
offload_block(c, u, i) ==
  IF ~DictHas(c.cached_blocks[u], i)
    THEN c
    ELSE IF ~c.global_blocks[u][i + 1].is_cuda
      THEN Fail(c, "AssertionError: is_cuda")
      ELSE [c EXCEPT !.global_blocks[u][i + 1].is_cuda = FALSE,
                     !.cached_blocks[u] = DictPop(@, i),
                     !.evicted[u] = Append(@, i)]

\* mutant: the eviction pass leaves one block too many
NumRemoveLess(n) == n - cfg.max_cached_block - 1

NumRemove(n) == n - cfg.max_cached_block

RECURSIVE OffloadList(_, _, _)
OffloadList(c, u, ids) ==
  IF ids = <<>> \/ c.err # "none" THEN c
  ELSE IF ~DictHas(c.cached_blocks[u], Head(ids))
    THEN Fail(c, "AssertionError: offload_block")
  ELSE OffloadList(offload_block(c, u, Head(ids)), u, Tail(ids))

remove_lru_unit(c, u) ==
  LET d == c.cached_blocks[u] IN
  IF Len(d) <= cfg.max_cached_block THEN c
  ELSE LET lst == SortAsc(d)
           num_remove == NumRemove(Len(d))
       IN OffloadList(c, u, [i \in 1..Min(num_remove, Len(lst)) |-> lst[i][1]])

RECURSIVE remove_lru_from(_, _)
remove_lru_from(c, u) ==
  IF u >= cfg.num_units \/ c.err # "none" THEN c
  ELSE remove_lru_from(remove_lru_unit(c, u), u + 1)

remove_lru_blocks(c) == remove_lru_from(c, 0)

\* mutant: only the first selected block of a unit is loaded
LoadListFirst(c, u, ids) ==
  IF ids = <<>> \/ c.err # "none" THEN c ELSE load_block(c, u, Head(ids))

\* the load loop of _append: for u: for i in block_topk[u]: load_block(u, i)
RECURSIVE LoadList(_, _, _)
LoadList(c, u, ids) ==
  IF ids = <<>> \/ c.err # "none" THEN c
  ELSE LoadList(load_block(c, u, Head(ids)), u, Tail(ids))

RECURSIVE LoadFrom(_, _, _)
LoadFrom(c, topk, u) ==
  IF u >= cfg.num_units \/ c.err # "none" THEN c
  ELSE LoadFrom(LoadList(c, u, topk[u]), topk, u + 1)

LoadTopk(c, topk) == LoadFrom(c, topk, 0)

(***************************************************************************)
(* Assembler: get_global_hidden_and_mask.                                  *)
(***************************************************************************)
\* mutant: the selected blocks are not forced into the candidate list
CandidatesNoForce(d, sel) ==
  LET scored == [i \in 1..Len(d) |-> <<d[i][1], Min(d[i][2], ScoreCap)>>]
      sorted == SortDesc(scored)
  IN SubSeq(sorted, 1, Min(Len(sorted), cfg.max_calc_block))

\* block_score of one unit: selected blocks get +inf, the others min(s, 1e8);
\* sorted descending and truncated to max_calc_block
Candidates(d, sel) ==
  LET scored == [i \in 1..Len(d) |->
                   <<d[i][1], IF d[i][1] \in Range(sel) THEN Inf
                                                        ELSE Min(d[i][2], ScoreCap)>>]
      sorted == SortDesc(scored)
  IN SubSeq(sorted, 1, Min(Len(sorted), cfg.max_calc_block))

\* content of a buffer position that holds no token: torch.zeros (the
\* persistent buffer) and torch.empty (the temporary one)
Zeros == -1
Uninit == -2

\* buffer_len of init(): the capacity of the persistent buffer
BufferLen ==
  LET buffer_len == cfg.max_calc_block * cfg.block_size + cfg.exc_block_size
                      + cfg.block_size + cfg.n_init
  IN IF cfg.ignore_remainder THEN buffer_len - (cfg.exc_block_size + cfg.block_size)
                             ELSE buffer_len

\* total_len of get_global_hidden_and_mask: the capacity of the temporary
\* tensor built when use_buffer is off
TotalLen ==
  LET total_len == cfg.max_calc_block * cfg.block_size + cfg.exc_block_size
                     + cfg.block_size + cfg.n_init
  IN IF cfg.ignore_remainder /\ init_exc
       THEN total_len - (cfg.exc_block_size + cfg.block_size)
       ELSE total_len

\* global_remainder_len: the part of the remainder that has left the local
\* window of a chunk of len_q query tokens
GlobalRemainderLen(len_q) ==
  Max(global_remainder_ed - global_remainder_st + len_q - cfg.n_local, 0)

\* "if not self.ignore_remainder or init_len < self.n_init"
WithRemainder == ~cfg.ignore_remainder \/ Len(init_k) < cfg.n_init

\* buf[a:b].copy_(src), 0 <= a <= b: the slice is clipped to the buffer, a
\* source of one token is broadcast, any other mismatch of the lengths
\* raises RuntimeError
SliceLen(buf, a, b) == Max(Min(b, Len(buf)) - Min(a, Len(buf)), 0)
CanCopy(buf, a, b, src) == SliceLen(buf, a, b) = Len(src) \/ Len(src) = 1
CopyInto(buf, a, b, src) ==
  [i \in 1..Len(buf) |->
     IF a < i /\ i <= b THEN (IF Len(src) = 1 THEN src[1] ELSE src[i - a]) ELSE buf[i]]

\* the slot loop "for j in range(max_calc_block)" for one block b_idx of
\* the block list gb of the unit, and the copy of its K into the slot
PlaceBlock(r, b_idx, b_idx_list, gb) ==
  IF r.err # "none" \/ b_idx \in Range(r.map) THEN r
  ELSE LET hit == {j \in 1..cfg.max_calc_block :
                     \/ j > Len(r.map)
                     \/ r.map[j] = -1
                     \/ r.map[j] \notin Range(b_idx_list)}
       IN IF hit = {} THEN [r EXCEPT !.err = "RuntimeError: copy_"]
          ELSE LET j == CHOOSE x \in hit : \A y \in hit : x <= y
                   slot_st == (j - 1) * cfg.block_size
                   slot_ed == slot_st + cfg.block_size
               IN IF j > Len(r.map) THEN [r EXCEPT !.err = "IndexError"]
                  ELSE IF ~CanCopy(r.buf, slot_st, slot_ed, gb[b_idx + 1].toks)
                    THEN [r EXCEPT !.map[j] = b_idx, !.err = "RuntimeError: copy_"]
                  ELSE [r EXCEPT !.map[j] = b_idx,
                                 !.buf = CopyInto(@, slot_st, slot_ed, gb[b_idx + 1].toks)]

RECURSIVE PlaceAll(_, _, _, _)
PlaceAll(r, todo, b_idx_list, gb) ==
  IF todo = <<>> THEN r
  ELSE PlaceAll(PlaceBlock(r, Head(todo), b_idx_list, gb), Tail(todo), b_idx_list, gb)

\* the two assertions on global_block_map[u] at the end of the build
MapAssertions(m, block_num) ==
  /\ \A j \in (block_num + 1)..Len(m) : m[j] = -1
  /\ \A j \in 1..Min(block_num, Len(m)) : m[j] > -1

\* the copies of the initial prefix and of the remainder window behind the
\* block slots of one unit; r.ed is the end of the assembled tensor
CopyInitAndRemainder(c, buf, block_num, len_q) ==
  LET init_st == block_num * cfg.block_size
      init_ed == init_st + Len(init_k)
      copy_init == \/ ~cfg.use_buffer
                   \/ c.global_buffer_init_st # init_st
                   \/ c.global_buffer_init_ed # init_ed
      rmd_len == GlobalRemainderLen(len_q)
      rmd_ed == init_ed + rmd_len
      rmd == Slice(global_remainder, global_remainder_st, global_remainder_st + rmd_len)
      buf1 == IF copy_init THEN CopyInto(buf, init_st, init_ed, init_k) ELSE buf
  IN IF copy_init /\ ~CanCopy(buf, init_st, init_ed, init_k)
       THEN [buf |-> buf, ed |-> init_ed, err |-> "RuntimeError: copy_ init"]
     ELSE IF ~WithRemainder THEN [buf |-> buf1, ed |-> init_ed, err |-> "none"]
     ELSE IF ~CanCopy(buf1, init_ed, rmd_ed, rmd)
       THEN [buf |-> buf1, ed |-> rmd_ed, err |-> "RuntimeError: copy_ remainder"]
     ELSE [buf |-> CopyInto(buf1, init_ed, rmd_ed, rmd), ed |-> rmd_ed, err |-> "none"]

AssembleEnd(c, maps, bufs, block_num, len_q) ==
  LET done == [u \in Units |-> CopyInitAndRemainder(c, bufs[u], block_num, len_q)]
      c1 == IF cfg.use_buffer
              THEN [c EXCEPT !.global_buffer_block_id_list = maps,
                             !.global_buffer = [u \in Units |-> done[u].buf],
                             !.global_buffer_init_st = block_num * cfg.block_size,
                             !.global_buffer_init_ed = block_num * cfg.block_size + Len(init_k)]
              ELSE c
  IN IF \E u \in Units : done[u].err # "none"
       THEN Fail(c, done[CHOOSE u \in Units : done[u].err # "none"].err)
     ELSE IF \E u \in Units : ~MapAssertions(maps[u], block_num)
       THEN Fail(c1, "AssertionError: global_block_map")
       ELSE [c1 EXCEPT !.global_block_map =
                          [u \in Units |-> SubSeq(maps[u], 1, Min(block_num, Len(maps[u])))],
                       !.global_block_num = block_num,
                       !.global_h_k =
                          [u \in Units |-> SubSeq(done[u].buf, 1, Min(done[u].ed, Len(done[u].buf)))]]

RECURSIVE AssembleFrom(_, _, _, _, _, _, _)
AssembleFrom(c, topk, u, block_num, maps, bufs, len_q) ==
  IF u >= cfg.num_units THEN AssembleEnd(c, maps, bufs, block_num, len_q)
  ELSE LET cand == Candidates(c.cached_blocks[u], topk[u])
           bn == IF block_num = -1 THEN Len(cand) ELSE block_num
           b_idx_list == [i \in 1..Len(cand) |-> cand[i][1]]
           map0 == IF cfg.use_buffer THEN c.global_buffer_block_id_list[u]
                                     ELSE [i \in 1..bn |-> -1]
           buf0 == IF cfg.use_buffer THEN c.global_buffer[u]
                                     ELSE [i \in 1..TotalLen |-> Uninit]
           placed == PlaceAll([map |-> map0, buf |-> buf0, err |-> "none"],
                              b_idx_list, b_idx_list, c.global_blocks[u])
       IN IF bn # Len(cand) THEN Fail(c, "AssertionError: block_num")
          ELSE IF placed.err # "none" THEN Fail(c, placed.err)
          ELSE AssembleFrom(c, topk, u + 1, bn, [maps EXCEPT ![u] = placed.map],
                            [bufs EXCEPT ![u] = placed.buf], len_q)

get_global_hidden_and_mask(c, len_q, topk) ==
  AssembleFrom(c, topk, 0, -1, [u \in Units |-> <<>>], [u \in Units |-> <<>>], len_q)

(***************************************************************************)
(* update_block_score.  A score is [is_none, val]: val[u] is the row of    *)
(* global_block_num block scores of unit u read back from the device.      *)
(***************************************************************************)
\* mutant: the stored value is not decayed
DecayKeep(v) == v

Decay(v) == v * cfg.score_decay

RECURSIVE AddScores(_, _, _, _)
AddScores(c, u, score, map) ==
  IF score = <<>> \/ map = <<>> \/ c.err # "none" THEN c
  ELSE LET i == Head(map)
           d == c.cached_blocks[u]
       IN IF ~DictHas(d, i) THEN Fail(c, "KeyError")
          ELSE AddScores([c EXCEPT !.cached_blocks[u] = DictSet(d, i, DictGet(d, i) + Head(score))],
                         u, Tail(score), Tail(map))

UpdateUnit(c, u, score) ==
  LET d == c.cached_blocks[u]
      decayed == [i \in 1..Len(d) |-> <<d[i][1], Decay(d[i][2])>>]
  IN AddScores([c EXCEPT !.cached_blocks[u] = decayed], u, score, c.global_block_map[u])

RECURSIVE UpdateFrom(_, _, _)
UpdateFrom(c, val, u) ==
  IF u >= cfg.num_units \/ c.err # "none" THEN c
  ELSE UpdateFrom(UpdateUnit(c, u, val[u]), val, u + 1)

update_block_score(c, global_score) ==
  IF global_score.is_none THEN c ELSE UpdateFrom(c, global_score.val, 0)

(***************************************************************************)
(* Token bookkeeping of append / append_global, on a record b holding the  *)
(* fields length, init_k, init_exc, local_k, global_remainder, ... of the  *)
(* manager.  b.blocks is the token content of the committed blocks (the    *)
(* same for every unit); b.fed is the stream position of the next token;   *)
(* b.avail lists, per query token, the number of blocks committed when its *)
(* chunk was selected.                                                     *)
(***************************************************************************)
size(b) == b.length

\* mutant: the length counts calls, not tokens
NextLengthPerCall(len, L) == len + 1

\* self.length += input_length
NextLength(len, L) == len + L

\* mutant: the commit loop stops one block early
CanCommitStrict(r_len) ==
  r_len - cfg.block_size > cfg.n_local

\* mutant: the commit loop takes one token of the local window
CanCommitEager(r_len) ==
  r_len - cfg.block_size >= cfg.n_local - 1

\* the guard of the commit loop of append_global
CanCommit(r_len) ==
  r_len - cfg.block_size >= cfg.n_local

\* mutant: the tokens moved to the initial prefix stay in the remainder
AfterInitNoAdvance(r_st, append_init_len) ==
  r_st

\* _global_remainder_st after the initial prefix took append_init_len tokens
AfterInit(r_st, append_init_len) ==
  r_st + append_init_len

\* mutant: the initial prefix counts as full as soon as it holds a token
InitFullAny(k) == Len(k) > 0

\* "if self.init_k.size(-2) == self.n_init: self.init_exc = True"
InitFull(k) == Len(k) = cfg.n_init

\* mutant: the commit loop does not count the blocks it commits
RECURSIVE CommitLoopNoCount(_, _, _)
CommitLoopNoCount(b, r_st, r_len) ==
  IF CanCommit(r_len)
    THEN CommitLoopNoCount(
           [b EXCEPT !.blocks = Append(@, Slice(b.global_remainder, r_st,
                                                r_st + cfg.block_size)),
                     !.block_k = @ + 1],
           r_st + cfg.block_size,
           r_len - cfg.block_size)
    ELSE [b EXCEPT !.global_remainder_st = r_st]

\* mutant: append_global commits at most one block per execution chunk
CommitLoopOnce(b, r_st, r_len) ==
  IF CanCommit(r_len)
    THEN [b EXCEPT !.blocks = Append(@, Slice(b.global_remainder, r_st,
                                              r_st + cfg.block_size)),
                   !.num_global_block = @ + 1,
                   !.block_k = @ + 1,
                   !.global_remainder_st = r_st + cfg.block_size]
    ELSE [b EXCEPT !.global_remainder_st = r_st]

RECURSIVE CommitLoop(_, _, _)
CommitLoop(b, r_st, r_len) ==
  IF CanCommit(r_len)
    THEN CommitLoop(
           [b EXCEPT !.blocks = Append(@, Slice(b.global_remainder, r_st,
                                                r_st + cfg.block_size)),
                     !.num_global_block = @ + 1,
                     !.block_k = @ + 1],
           r_st + cfg.block_size,
           r_len - cfg.block_size)
    ELSE [b EXCEPT !.global_remainder_st = r_st]

append_global(b, exc_length) ==
  LET r_ed == b.global_remainder_ed + exc_length
      st0 == b.global_remainder_st
      len0 == r_ed - st0
      doInit == (~b.init_exc) /\ len0 > cfg.n_local
      append_init_len == Min(cfg.n_init - Len(b.init_k), len0 - cfg.n_local)
      init1 == IF doInit
                 THEN b.init_k \o Slice(b.global_remainder, st0, st0 + append_init_len)
                 ELSE b.init_k
      st1 == IF doInit THEN AfterInit(st0, append_init_len) ELSE st0
      len1 == IF doInit THEN len0 - append_init_len ELSE len0
      exc1 == IF doInit /\ InitFull(init1) THEN TRUE ELSE b.init_exc
  IN CommitLoop([b EXCEPT !.init_k = init1, !.init_exc = exc1,
                          !.global_remainder_ed = r_ed],
                st1, len1)

\* mutant: the tokens left in the remainder by earlier calls are not counted
append_begin_reset(b, L) ==
  [b EXCEPT !.initialized = TRUE,
            !.local_k = @ \o Tokens(b.fed, L),
            !.global_remainder_st = 0,
            !.global_remainder_ed = 0,
            !.global_remainder = @ \o Tokens(b.fed, L),
            !.fed = @ + L]

\* the head of append: extend local_k and the remainder by the input
append_begin(b, L) ==
  [b EXCEPT !.initialized = TRUE,
            !.local_k = @ \o Tokens(b.fed, L),
            !.global_remainder_st = 0,
            !.global_remainder_ed = Len(b.global_remainder),
            !.global_remainder = @ \o Tokens(b.fed, L),
            !.fed = @ + L]

\* mutant: the local window is not truncated
append_end_keep(b, L) ==
  [b EXCEPT !.length = NextLength(@, L),
            !.global_remainder = SubSeq(@, b.global_remainder_st + 1, Len(@))]

\* the tail of append: advance length, truncate local_k, drop the consumed
\* prefix of the remainder
append_end(b, L) ==
  [b EXCEPT !.length = NextLength(@, L),
            !.local_k = IF Len(@) >= cfg.n_local THEN Last(@, cfg.n_local) ELSE @,
            !.global_remainder = SubSeq(@, b.global_remainder_st + 1, Len(@))]

\* end of the execution chunk that starts at s
ChunkEnd(s, L) == Min(s + cfg.exc_block_size, L)

\* one execution chunk, as far as the bookkeeping goes
chunk_step(b, exc_length) ==
  append_global([b EXCEPT !.avail = @ \o [i \in 1..exc_length |-> b.num_global_block]],
                exc_length)

RECURSIVE ChunkLoop(_, _, _)
ChunkLoop(b, L, s) ==
  IF s >= L THEN b
  ELSE ChunkLoop(chunk_step(b, ChunkEnd(s, L) - s), L, s + cfg.exc_block_size)

\* a whole append call of input length L
append(b, L) == append_end(ChunkLoop(append_begin(b, L), L, 0), L)

EmptyBook ==
  [initialized |-> FALSE, length |-> 0, init_exc |-> FALSE, init_k |-> <<>>,
   local_k |-> <<>>, global_remainder |-> <<>>, global_remainder_st |-> 0,
   global_remainder_ed |-> 0, num_global_block |-> 0, block_k |-> 0,
   blocks |-> <<>>, fed |-> 0, avail |-> <<>>]

EmptyCache ==
  [global_blocks |-> [u \in Units |-> <<>>],
   cached_blocks |-> [u \in Units |-> <<>>],
   load_count |-> 0,
   global_buffer_block_id_list |-> [u \in Units |-> [j \in 1..cfg.max_calc_block |-> -1]],
   global_buffer |-> [u \in Units |-> IF cfg.use_buffer THEN [i \in 1..BufferLen |-> Zeros]
                                                          ELSE <<>>],
   global_buffer_init_st |-> 0,
   global_buffer_init_ed |-> 0,
   global_h_k |-> [u \in Units |-> <<>>],
   global_block_map |-> [u \in Units |-> <<>>],
   global_block_num |-> -1,
   evicted |-> [u \in Units |-> <<>>],
   err |-> "none"]

\* the bookkeeping fields of the manager as a record
Book ==
  [initialized |-> initialized, length |-> length, init_exc |-> init_exc,
   init_k |-> init_k, local_k |-> local_k, global_remainder |-> global_remainder,
   global_remainder_st |-> global_remainder_st,
   global_remainder_ed |-> global_remainder_ed,
   num_global_block |-> num_global_block, block_k |-> block_k,
   blocks |-> [i \in 1..Len(cache.global_blocks[0]) |-> cache.global_blocks[0][i].toks],
   fed |-> fed, avail |-> <<>>]

SetBook(b) ==
  /\ initialized' = b.initialized
  /\ length' = b.length
  /\ init_exc' = b.init_exc
  /\ init_k' = b.init_k
  /\ local_k' = b.local_k
  /\ global_remainder' = b.global_remainder
  /\ global_remainder_st' = b.global_remainder_st
  /\ global_remainder_ed' = b.global_remainder_ed
  /\ num_global_block' = b.num_global_block
  /\ block_k' = b.block_k

(***************************************************************************)
(* Construction.  __init__ accepts a parameter record iff its assertions   *)
(* hold.                                                                   *)
(***************************************************************************)
\* mutant: the constructor does not check that lru-s has block scores
ConstructibleNoScoreCheck(c) ==
  /\ c.max_calc_block >= c.topk
  /\ c.exc_block_size <= c.n_local
  /\ c.cache_strategy \in {"lru", "fifo", "lru-s"}

Constructible(c) ==
  /\ c.max_calc_block >= c.topk
  /\ c.exc_block_size <= c.n_local
  /\ c.cache_strategy \in {"lru", "fifo", "lru-s"}
  /\ (c.cache_strategy = "lru-s" => c.calc_block_score)

\* init: "if self.perhead: num_units = batch_size * num_heads; unit_size = 1
\* else: num_units = batch_size; unit_size = num_heads"
NumUnits(c) == IF c.perhead THEN c.batch_size * c.num_heads ELSE c.batch_size
UnitSize(c) == IF c.perhead THEN 1 ELSE c.num_heads

\* the inputs of append pass the assertions of init: every tensor has
\* num_heads or num_heads_kv heads, and the views of flat_to_unit exist
InputShapes(c) ==
  /\ c.num_units = NumUnits(c)
  /\ c.num_heads % c.num_heads_kv = 0

\* the parameter values explored by the free caller: one unit
FreeParams ==
  [n_init : {1}, n_local : {2}, block_size : {1}, exc_block_size : {1, 2},
   topk : {1, 2}, max_cached_block : {2}, max_calc_block : {2},
   use_buffer : BOOLEAN, cache_strategy : {"lru", "fifo", "lru-s"},
   calc_block_score : BOOLEAN, score_decay : {0, 1}, num_units : {1},
   perhead : {FALSE}, batch_size : {1}, num_heads : {1}, num_heads_kv : {1},
   chunk_topk_calc : {None}, ignore_remainder : {FALSE},
   async_global_stream : {TRUE}]

\* the same with two units
FreeParams2 ==
  [n_init : {1}, n_local : {2}, block_size : {1}, exc_block_size : {2},
   topk : {1}, max_cached_block : {2}, max_calc_block : {1, 2},
   use_buffer : {TRUE}, cache_strategy : {"lru", "fifo", "lru-s"},
   calc_block_score : BOOLEAN, score_decay : {1}, num_units : {2},
   perhead : {FALSE}, batch_size : {2}, num_heads : {1}, num_heads_kv : {1},
   chunk_topk_calc : {None}, ignore_remainder : {FALSE},
   async_global_stream : {TRUE}]

\* the same with no initial prefix, a cache smaller than topk and more
\* buffer slots than cached blocks
FreeParams3 ==
  [n_init : {0}, n_local : {2}, block_size : {1}, exc_block_size : {2},
   topk : {2}, max_cached_block : {1}, max_calc_block : {3},
   use_buffer : {TRUE}, cache_strategy : {"lru", "fifo", "lru-s"},
   calc_block_score : BOOLEAN, score_decay : {1}, num_units : {1},
   perhead : {FALSE}, batch_size : {1}, num_heads : {1}, num_heads_kv : {1},
   chunk_topk_calc : {None}, ignore_remainder : {FALSE},
   async_global_stream : {TRUE}]

FreeConfigs ==
  {c \in FreeParams \cup FreeParams2 \cup FreeParams3 :
     Constructible(c) /\ (c.score_decay = 0 => c.calc_block_score)}

\* end-to-end scenario "Tiny"
TinyConfig ==
  [n_init |-> 2, n_local |-> 4, block_size |-> 2, exc_block_size |-> 2,
   topk |-> 1, max_cached_block |-> 2, max_calc_block |-> 1,
   use_buffer |-> TRUE, cache_strategy |-> "lru",
   calc_block_score |-> FALSE, score_decay |-> 1, num_units |-> 1,
   perhead |-> FALSE, batch_size |-> 1, num_heads |-> 1, num_heads_kv |-> 1,
   chunk_topk_calc |-> None, ignore_remainder |-> FALSE,
   async_global_stream |-> TRUE]

TinyPlan == <<2, 2, 10>>

\* the parameter values explored by the streaming caller
StreamParams ==
  [n_init : {0, 1, 2}, n_local : {2, 4}, block_size : {1, 2}, exc_block_size : {1, 2, 3},
   topk : {1}, max_cached_block : {2}, max_calc_block : {1},
   use_buffer : {TRUE}, cache_strategy : {"lru"},
   calc_block_score : {FALSE}, score_decay : {1}, num_units : {1},
   perhead : {FALSE}, batch_size : {1}, num_heads : {1}, num_heads_kv : {1},
   chunk_topk_calc : {None}, ignore_remainder : {FALSE},
   async_global_stream : {TRUE}]

StreamConfigs == {c \in StreamParams : Constructible(c)}

\* N tokens fed in N / c calls of length c, c a divisor of n_local
StreamPlans(c) ==
  {[i \in 1..k |-> len] : <<len, k>> \in
     {x \in (1..c.n_local) \X (1..MaxStream) : c.n_local % x[1] = 0 /\ x[1] * x[2] <= MaxStream}}

\* managers of every policy, with and without block scores, and the inputs
\* that fill their cache beyond max_cached_block
OrderParams ==
  [n_init : {1}, n_local : {2}, block_size : {1}, exc_block_size : {2},
   topk : {2}, max_cached_block : {2}, max_calc_block : {2},
   use_buffer : {FALSE}, cache_strategy : {"lru", "fifo", "lru-s"},
   calc_block_score : BOOLEAN, score_decay : {0, 1}, num_units : {1},
   perhead : {FALSE}, batch_size : {1}, num_heads : {1}, num_heads_kv : {1},
   chunk_topk_calc : {None}, ignore_remainder : {FALSE},
   async_global_stream : {TRUE}]

OrderConfigs ==
  {c \in OrderParams : Constructible(c) /\ (c.score_decay = 0 => c.calc_block_score)}

OrderPlans == {<<3, 2, 1, 1>>, <<2, 2, 2, 2>>}

\* managers with and without batched top-k; chunk_topk_calc below, equal
\* to, a multiple of and no multiple of exc_block_size
BatchedParams ==
  [n_init : {0}, n_local : {2}, block_size : {1}, exc_block_size : {1, 2},
   topk : {1}, max_cached_block : {2}, max_calc_block : {1},
   use_buffer : {TRUE}, cache_strategy : {"lru"},
   calc_block_score : {FALSE}, score_decay : {1}, num_units : {1},
   perhead : {FALSE}, batch_size : {1}, num_heads : {1}, num_heads_kv : {1},
   chunk_topk_calc : {None, 1, 2, 3, 4},
   ignore_remainder : {FALSE},
   async_global_stream : {TRUE}]

BatchedConfigs == {c \in BatchedParams : Constructible(c)}

\* parameter records handed to the constructor, valid or not
NewParams ==
  [n_init : {1}, n_local : {2}, block_size : {1}, exc_block_size : {2, 3},
   topk : {1, 2}, max_cached_block : {1, 2}, max_calc_block : {1, 2},
   use_buffer : {TRUE}, cache_strategy : {"lru", "fifo", "lru-s", "random"},
   calc_block_score : BOOLEAN, score_decay : {1}, num_units : {1},
   perhead : {FALSE}, batch_size : {1}, num_heads : {1}, num_heads_kv : {1},
   chunk_topk_calc : {None}, ignore_remainder : {FALSE},
   async_global_stream : BOOLEAN]

\* managers with and without the persistent buffer: a cache smaller than,
\* equal to and larger than the number of buffer slots, execution chunks
\* shorter and longer than a block, the remainder ignored or not
BufferParams ==
  [n_init : {0, 1}, n_local : {2, 3}, block_size : {1, 2}, exc_block_size : {1, 3},
   topk : {1}, max_cached_block : {1, 2}, max_calc_block : {1, 2},
   use_buffer : BOOLEAN, cache_strategy : {"lru", "fifo"},
   calc_block_score : {FALSE}, score_decay : {1}, num_units : {1},
   perhead : {FALSE}, batch_size : {1}, num_heads : {1}, num_heads_kv : {1},
   chunk_topk_calc : {None}, ignore_remainder : BOOLEAN,
   async_global_stream : {TRUE}]

BufferConfigs == {c \in BufferParams : Constructible(c)}

BufferPlans == {<<3, 3>>, <<4, 4>>}

\* managers with per-batch units and with per-head units, one or two
\* heads, with and without batched top-k
HeadParams ==
  [n_init : {0}, n_local : {2}, block_size : {1}, exc_block_size : {1, 2},
   topk : {1}, max_cached_block : {2}, max_calc_block : {1},
   use_buffer : {TRUE}, cache_strategy : {"lru"},
   calc_block_score : {FALSE}, score_decay : {1}, num_units : {1, 2},
   perhead : BOOLEAN, batch_size : {1}, num_heads : {1, 2}, num_heads_kv : {1, 2},
   chunk_topk_calc : {None, 2},
   ignore_remainder : {FALSE},
   async_global_stream : {TRUE}]

HeadConfigs == {c \in HeadParams : Constructible(c) /\ InputShapes(c)}

(***************************************************************************)
(* Inputs that stand for tensor values.                                    *)
(***************************************************************************)
ScoreVals == {0, 1}

\* lists of k distinct block ids below n, in any order
TopkLists(n, k) ==
  {s \in [1..k -> 0..(n - 1)] : \A i, j \in 1..k : i # j => s[i] # s[j]}

\* every committed block of every unit: list(range(len(global_blocks[0])))
AllBlocks == [u \in Units |-> [i \in 1..Len(cache.global_blocks[0]) |-> i - 1]]

\* calc_block_topk in single-query mode: the selection over the
\* representatives committed so far
SingleQueryTopk ==
  IF num_global_block <= cfg.topk
    THEN {AllBlocks}
    ELSE [Units -> TopkLists(num_global_block, cfg.topk)]

(***************************************************************************)
(* Batched top-k (chunk_topk_calc).  A record t holds _topk_calc_cur,      *)
(* _cached_topk, _topk_cur and the two counters; t.err records an          *)
(* exception.                                                              *)
(***************************************************************************)
CeilDiv(a, b) == (a + b - 1) \div b

\* use_chunk_topk = self.chunk_topk_calc is not None and input_length > 1
UseChunkTopk(L) == cfg.chunk_topk_calc # None /\ L > 1

\* exc_block_per_topk_chunk; range() raises ValueError when it is 0
ExcBlockPerTopkChunk == cfg.chunk_topk_calc \div cfg.exc_block_size

\* calc_cur_list of an input of length L, for ExcBlockPerTopkChunk > 0
CalcCurList(L) ==
  LET exc_block_num == L \div cfg.exc_block_size
      per == ExcBlockPerTopkChunk
      lst == [j \in 1..(exc_block_num \div per + 1) |->
                (j - 1) * per * cfg.exc_block_size]
  IN IF lst[Len(lst)] < L THEN Append(lst, L) ELSE lst

\* flat_to_unit on a tensor of shape <<size(0), size(1), length>>: the
\* shape of the view, or the exception raised
flat_to_unit(shape) ==
  IF shape[1] # cfg.batch_size
    THEN [err |-> "AssertionError: flat_to_unit", shape |-> shape]
  ELSE IF shape[2] = cfg.num_heads \/ shape[2] = cfg.num_heads_kv
    THEN [err |-> "none", shape |-> <<NumUnits(cfg), UnitSize(cfg), shape[3]>>]
  ELSE [err |-> "ValueError: flat_to_unit", shape |-> shape]

\* the shape of the query slice append hands to get_batched_topk: global_q
\* was passed through flat_to_unit at the head of append
UnitShape(len) == <<NumUnits(cfg), UnitSize(cfg), len>>

\* the exception of get_batched_topk on a query slice of len tokens, if
\* any: it returns before flat_to_unit when num_global_block <= topk
BatchedTopkErr(len) ==
  IF num_global_block <= cfg.topk THEN "none" ELSE flat_to_unit(UnitShape(len)).err

\* the lists get_batched_topk can return for a query slice of len tokens:
\* one entry per execution chunk of the slice, each selected among the
\* blocks committed when it is called
get_batched_topk(len) ==
  LET exc_num == CeilDiv(len, cfg.exc_block_size)
  IN IF num_global_block <= cfg.topk
       THEN {[j \in 1..exc_num |-> AllBlocks]}
       ELSE IF BatchedTopkErr(len) # "none" THEN {}
       ELSE [1..exc_num -> [Units -> TopkLists(num_global_block, cfg.topk)]]

\* the .cpu() readouts of one get_batched_topk call
BatchedReadouts(len) ==
  LET exc_num == CeilDiv(len, cfg.exc_block_size)
      exc_block_num == len \div cfg.exc_block_size
  IN IF num_global_block <= cfg.topk THEN 0
     ELSE (IF exc_block_num > 0 THEN 1 ELSE 0) + (IF exc_block_num # exc_num THEN 1 ELSE 0)

TopkNow ==
  [err |-> "none", topk_calc_cur |-> topk_calc_cur, cached_topk |-> cached_topk,
   topk_cur |-> topk_cur, topk_calls |-> topk_calls, readouts |-> readouts]

\* mutant: the batched top-k is recomputed for every execution chunk
NeedRefreshAlways(ed) == TRUE

\* the guard "calc_cur_list[self._topk_calc_cur + 1] < ed"
NeedRefresh(ed) == calc_cur_list[topk_calc_cur + 2] < ed

\* the head of the chunk loop of append: recompute the batched top-k when
\* the chunk that ends at ed leaves the current slice
RefreshTopk(ed) ==
  IF ~use_chunk_topk THEN {TopkNow}
  ELSE IF topk_calc_cur + 2 > Len(calc_cur_list)
    THEN {[TopkNow EXCEPT !.err = "IndexError: calc_cur_list"]}
  ELSE IF ~NeedRefresh(ed) THEN {TopkNow}
  ELSE IF topk_calc_cur + 3 > Len(calc_cur_list)
    THEN {[TopkNow EXCEPT !.err = "IndexError: calc_cur_list"]}
  ELSE IF ~(ed <= calc_cur_list[topk_calc_cur + 3])
    THEN {[TopkNow EXCEPT !.err = "AssertionError: calc_cur_list"]}
  ELSE LET cur == topk_calc_cur + 1
           len == calc_cur_list[cur + 2] - calc_cur_list[cur + 1]
       IN IF BatchedTopkErr(len) # "none"
            THEN {[TopkNow EXCEPT !.err = BatchedTopkErr(len), !.topk_calc_cur = cur,
                                  !.topk_calls = topk_calls + 1]}
          ELSE
          {[err |-> "none", topk_calc_cur |-> cur, cached_topk |-> r, topk_cur |-> 0,
            topk_calls |-> topk_calls + 1, readouts |-> readouts + BatchedReadouts(len)] :
             r \in get_batched_topk(len)}

\* calc_block_topk: the single-query selection, or the entry _topk_cur of
\* the cached batched selection (no list when the index is out of range)
calc_block_topk(t) ==
  IF ~use_chunk_topk THEN SingleQueryTopk
  ELSE IF t.topk_cur + 1 > Len(t.cached_topk) THEN {}
  ELSE {t.cached_topk[t.topk_cur + 1]}

SetTopk(t) ==
  /\ topk_calc_cur' = t.topk_calc_cur
  /\ cached_topk' = t.cached_topk
  /\ topk_cur' = t.topk_cur
  /\ topk_calls' = t.topk_calls
  /\ readouts' = t.readouts

NoScore == [is_none |-> TRUE, val |-> <<>>]

\* mutant: the global stage returns its scores whether requested or not
GlobalScoresAlways(get_score, block_num) ==
  {[is_none |-> FALSE, val |-> v] : v \in [Units -> [1..block_num -> ScoreVals]]}

\* the score list of the global stage: None unless get_score was requested
GlobalScores(get_score, block_num) ==
  IF get_score
    THEN {[is_none |-> FALSE, val |-> v] : v \in [Units -> [1..block_num -> ScoreVals]]}
    ELSE {NoScore}

\* the scores of the second run
RefScore(sc, block_num) ==
  IF sc.is_none THEN sc
  ELSE [is_none |-> FALSE, val |-> [u \in Units |-> [i \in 1..block_num |-> 0]]]

\* mutant: the new blocks are appended to the list of unit 0 only
CommitBlocksFirstUnit(c, new) ==
  [c EXCEPT !.global_blocks[0] =
              @ \o [i \in 1..Len(new) |-> [toks |-> new[i], is_cuda |-> FALSE]],
            !.global_block_map = [u \in Units |-> <<>>],
            !.global_block_num = -1,
            !.evicted = [u \in Units |-> <<>>]]

\* commit of the blocks cut off the remainder by append_global
CommitBlocks(c, new) ==
  [c EXCEPT !.global_blocks =
     [u \in Units |-> @[u] \o [i \in 1..Len(new) |-> [toks |-> new[i], is_cuda |-> FALSE]]],
            !.global_block_map = [u \in Units |-> <<>>],
            !.global_block_num = -1,
            !.evicted = [u \in Units |-> <<>>]]

OnRef(r, next) == IF r.err = "none" THEN next ELSE r

(***************************************************************************)
(* The recency ticket of a block as the policy defines it: under lru the   *)
(* ticket of its last selection, under fifo the ticket of its last load.   *)
(* recency.of[u][i + 1] is the ticket of block i of unit u, -1 if none.    *)
(***************************************************************************)
RECURSIVE TouchList(_, _, _, _)
TouchList(t, u, ids, res) ==
  IF ids = <<>> THEN t
  ELSE LET i == Head(ids)
           fresh == \/ cfg.cache_strategy = "lru"
                    \/ cfg.cache_strategy = "fifo" /\ i \notin res
       IN TouchList(IF fresh THEN [t EXCEPT !.of[u][i + 1] = t.clock, !.clock = @ + 1] ELSE t,
                    u, Tail(ids), res)

RECURSIVE TouchFrom(_, _, _)
TouchFrom(t, topk, u) ==
  IF u >= cfg.num_units THEN t
  ELSE TouchFrom(TouchList(t, u, topk[u], DictKeys(cache.cached_blocks[u])), topk, u + 1)

\* tickets after a commit of n new blocks: none for a block that is not resident
Tickets(t, c, n) ==
  [t EXCEPT !.of = [u \in Units |->
     [i \in 1..(Len(@[u]) + n) |->
        IF i <= Len(@[u]) /\ DictHas(c.cached_blocks[u], i - 1) THEN @[u][i] ELSE -1]]]

(***************************************************************************)
(* TransferingTensor.  A handle is a record: is_cuda is the attribute set   *)
(* by the constructor, on_cuda the device of the tensor it holds, done      *)
(* tells that the non-blocking copy has completed and waited that           *)
(* event.wait() has been called on its event.  An access is a record: the   *)
(* operation, the handle, the attribute name if any, and whether a wait on  *)
(* the handle's event preceded the return.                                  *)
(***************************************************************************)
NoAccess == [op |-> "none", h |-> 0, name |-> "", waited |-> FALSE]

\* __init__ on a torch.Tensor that lives on the device (src_cuda) or on the
\* host: "assert tensor.is_cuda" for to_cpu, "assert not tensor.is_cuda"
\* otherwise; then the non-blocking copy and event.record()
TransferInit(src_cuda, to_cpu) ==
  IF src_cuda # to_cpu
    THEN [err |-> "AssertionError", new |-> <<>>]
    ELSE [err |-> "none",
          new |-> <<[is_cuda |-> ~to_cpu, on_cuda |-> ~to_cpu, done |-> FALSE,
                     waited |-> FALSE]>>]

\* get: self.event.wait(); return self.tensor
TransferGet(hs, h) == [hs EXCEPT ![h].waited = TRUE]

\* __len__: return len(self.tensor), no wait
TransferLen(hs, h) == hs

\* the attributes found on the object itself: python reads them without
\* calling __getattr__
OwnAttributes == {"is_cuda", "tensor", "event"}

\* the attribute names read by the client: one attribute of the handle and
\* one that only the tensor has
AttrNames == {"is_cuda", "shape"}

\* attribute read: __getattr__ (self.event.wait(); getattr(self.tensor,
\* name)) runs only for a name that is not found on the object
TransferGetAttr(hs, h, name) ==
  IF name \in OwnAttributes THEN hs ELSE [hs EXCEPT ![h].waited = TRUE]

(***************************************************************************)
(* Initial states.                                                         *)
(***************************************************************************)
InitAt(c, p, at) ==
  /\ cfg = c
  /\ plan = p
  /\ fed = 0
  /\ pc = at
  /\ initialized = FALSE
  /\ length = 0
  /\ init_exc = FALSE
  /\ init_k = <<>>
  /\ local_k = <<>>
  /\ global_remainder = <<>>
  /\ global_remainder_st = 0
  /\ global_remainder_ed = 0
  /\ num_global_block = 0
  /\ block_k = 0
  /\ input_length = 0
  /\ st = 0
  /\ kv_length = 0
  /\ use_chunk_topk = FALSE
  /\ calc_cur_list = <<>>
  /\ topk_cur = 0
  /\ topk_calc_cur = -1
  /\ cached_topk = <<>>
  /\ topk_calls = 0
  /\ readouts = 0
  /\ block_topk = [u \in Units |-> <<>>]
  /\ call_selected = [u \in Units |-> {}]
  /\ glb_score = NoScore
  /\ recency = [clock |-> 0, of |-> [u \in Units |-> <<>>]]
  /\ cache = EmptyCache
  /\ ref = EmptyCache
  /\ GLOBAL_STREAM = IF at = "idle" /\ c.async_global_stream THEN "stream" ELSE "none"
  /\ issued_on = "current"
  /\ waited = FALSE
  /\ handles = <<>>
  /\ access = NoAccess

\* the state after a successful construction
InitWith(c, p) == InitAt(c, p, "idle")

Init == \E c \in FreeConfigs : InitWith(c, <<>>)

InitTiny == InitWith(TinyConfig, TinyPlan)

InitStream == \E c \in StreamConfigs : \E p \in StreamPlans(c) : InitWith(c, p)

InitOrder == \E c \in OrderConfigs : \E p \in OrderPlans : InitWith(c, p)

InitBatched == \E c \in BatchedConfigs : InitWith(c, <<>>)

InitBuffer == \E c \in BufferConfigs : \E p \in BufferPlans : InitWith(c, p)

InitHeads == \E c \in HeadConfigs : InitWith(c, <<>>)

\* a client of TransferingTensor, no manager at work
InitTransfer == InitAt(TinyConfig, <<>>, "transfer")

\* before construction, with any parameter record
InitNew == \E c \in NewParams : InitAt(c, <<>>, "new")

\* "if self.async_global_stream and GLOBAL_STREAM is None: GLOBAL_STREAM =
\* torch.cuda.Stream()", reached when the first two assertions hold
NewGlobalStream(c) ==
  IF c.max_calc_block >= c.topk /\ c.exc_block_size <= c.n_local /\ c.async_global_stream
    THEN "stream"
    ELSE GLOBAL_STREAM

\* "with torch.cuda.stream(GLOBAL_STREAM)": the stream the work is issued
\* on; torch.cuda.stream(None) leaves the current stream in place
StreamOfGlobalWork == IF GLOBAL_STREAM = "none" THEN "current" ELSE "global"

(***************************************************************************)
(* __init__: the manager exists (pc = "idle") iff the assertions of the    *)
(* constructor hold; otherwise the constructor raises (pc = "invalid").    *)
(***************************************************************************)
Construct ==
  /\ pc = "new"
  /\ pc' = IF Constructible(cfg) THEN "idle" ELSE "invalid"
  /\ GLOBAL_STREAM' = NewGlobalStream(cfg)
  /\ UNCHANGED <<cfg, plan, fed, bookVars, callVars, topkVars, block_topk, call_selected,
                 glb_score, recency, cache, ref, issued_on, waited, transferVars>>

\* the constructor of another manager of the process, run before this one
ConstructOther ==
  /\ pc = "new"
  /\ \E c \in NewParams : GLOBAL_STREAM' = NewGlobalStream(c)
  /\ UNCHANGED <<cfg, plan, fed, pc, bookVars, callVars, topkVars, block_topk,
                 call_selected, glb_score, recency, cache, ref, issued_on, waited,
                 transferVars>>

(***************************************************************************)
(* append: one action per program position.                                *)
(***************************************************************************)
StartAppend(L) ==
  /\ pc = "idle"
  /\ LET b == append_begin(Book, L)
     IN SetBook(b) /\ fed' = b.fed
  /\ input_length' = L
  /\ st' = 0
  /\ kv_length' = Len(local_k) + L
  /\ call_selected' = [u \in Units |-> {}]
  /\ use_chunk_topk' = UseChunkTopk(L)
  /\ topk_calls' = 0
  /\ readouts' = 0
  /\ IF UseChunkTopk(L) /\ ExcBlockPerTopkChunk = 0
       THEN /\ cache' = Fail(cache, "ValueError: range() arg 3 must not be zero")
            /\ pc' = "failed"
            /\ UNCHANGED <<calc_cur_list, topk_cur, topk_calc_cur>>
       ELSE /\ cache' = cache
            /\ pc' = "select"
            /\ IF UseChunkTopk(L)
                 THEN /\ calc_cur_list' = CalcCurList(L)
                      /\ topk_cur' = 0
                      /\ topk_calc_cur' = -1
                 ELSE UNCHANGED <<calc_cur_list, topk_cur, topk_calc_cur>>
  /\ UNCHANGED <<cfg, cached_topk, block_topk, glb_score, recency, ref, streamVars, transferVars>>

\* a caller that feeds inputs of any length
AppendFree ==
  /\ plan = <<>>
  /\ \E L \in 1..MaxIn : fed + L <= MaxTotal /\ StartAppend(L)
  /\ UNCHANGED plan

\* a caller of a manager with batched top-k: longer inputs
AppendLong ==
  /\ plan = <<>>
  /\ \E L \in 1..MaxBatchIn : fed + L <= MaxBatchTotal /\ StartAppend(L)
  /\ UNCHANGED plan

\* a caller that feeds the planned inputs
AppendPlanned ==
  /\ plan # <<>>
  /\ StartAppend(Head(plan))
  /\ plan' = Tail(plan)

\* _append: calc_block_topk and the load loop
Select ==
  /\ pc = "select"
  /\ \E t \in RefreshTopk(ChunkEnd(st, input_length)) :
       /\ SetTopk(t)
       /\ IF t.err # "none" \/ calc_block_topk(t) = {}
            THEN /\ cache' = Fail(cache, IF t.err # "none" THEN t.err
                                                           ELSE "IndexError: _cached_topk")
                 /\ UNCHANGED <<block_topk, call_selected, recency, ref>>
            ELSE \E topk \in calc_block_topk(t) :
                   /\ block_topk' = topk
                   /\ call_selected' = [u \in Units |-> call_selected[u] \cup Range(topk[u])]
                   /\ recency' = TouchFrom(recency, topk, 0)
                   /\ cache' = LoadTopk(cache, topk)
                   /\ ref' = OnRef(ref, LoadTopk(ref, topk))
  /\ pc' = IF cache'.err = "none" THEN "assemble" ELSE "failed"
  /\ issued_on' = StreamOfGlobalWork
  /\ waited' = FALSE
  /\ UNCHANGED <<cfg, plan, fed, bookVars, callVars, use_chunk_topk, calc_cur_list,
                 glb_score, GLOBAL_STREAM, transferVars>>

\* _append: get_global_hidden_and_mask
Assemble ==
  /\ pc = "assemble"
  /\ LET len_q == ChunkEnd(st, input_length) - st
     IN /\ cache' = get_global_hidden_and_mask(cache, len_q, block_topk)
        /\ ref' = OnRef(ref, get_global_hidden_and_mask(ref, len_q, block_topk))
  /\ pc' = IF cache'.err = "none" THEN "attend" ELSE "failed"
  /\ waited' = (cache'.err = "none" /\ cfg.async_global_stream)
  /\ UNCHANGED <<cfg, plan, fed, bookVars, callVars, topkVars, block_topk, call_selected,
                 glb_score, recency, GLOBAL_STREAM, issued_on, transferVars>>

\* _append: the global stage of the attention and get_result
GlobalAttn ==
  /\ pc = "attend"
  /\ glb_score' \in GlobalScores(cfg.calc_block_score, cache.global_block_num)
  /\ pc' = "evict_pre"
  /\ UNCHANGED <<cfg, plan, fed, bookVars, callVars, topkVars, block_topk, call_selected,
                 recency, cache, ref, streamVars, transferVars>>

\* _append: remove_lru_blocks before the score update (lru, fifo)
EvictPre ==
  /\ pc = "evict_pre"
  /\ cache' = IF cfg.cache_strategy # "lru-s" THEN remove_lru_blocks(cache) ELSE cache
  /\ ref' = IF cfg.cache_strategy # "lru-s" THEN OnRef(ref, remove_lru_blocks(ref)) ELSE ref
  /\ pc' = IF cache'.err = "none" THEN "score" ELSE "failed"
  /\ UNCHANGED <<cfg, plan, fed, bookVars, callVars, topkVars, block_topk, call_selected,
                 glb_score, recency, streamVars, transferVars>>

\* _append: update_block_score
UpdateScore ==
  /\ pc = "score"
  /\ cache' = update_block_score(cache, glb_score)
  /\ ref' = OnRef(ref, update_block_score(ref, RefScore(glb_score, ref.global_block_num)))
  /\ glb_score' = NoScore
  /\ pc' = IF cache'.err = "none" THEN "evict_post" ELSE "failed"
  /\ UNCHANGED <<cfg, plan, fed, bookVars, callVars, topkVars, block_topk, call_selected,
                 recency, streamVars, transferVars>>

\* _append: remove_lru_blocks after the score update (lru-s)
EvictPost ==
  /\ pc = "evict_post"
  /\ cache' = IF cfg.cache_strategy = "lru-s" THEN remove_lru_blocks(cache) ELSE cache
  /\ ref' = IF cfg.cache_strategy = "lru-s" THEN OnRef(ref, remove_lru_blocks(ref)) ELSE ref
  /\ pc' = IF cache'.err = "none" THEN "commit" ELSE "failed"
  /\ UNCHANGED <<cfg, plan, fed, bookVars, callVars, topkVars, block_topk, call_selected,
                 glb_score, recency, streamVars, transferVars>>

\* append: append_global for the chunk, then the next chunk or the tail
AppendGlobal ==
  /\ pc = "commit"
  /\ LET b == append_global(Book, ChunkEnd(st, input_length) - st)
         new == SubSeq(b.blocks, num_global_block + 1, Len(b.blocks))
     IN /\ SetBook(b)
        /\ cache' = CommitBlocks(cache, new)
        /\ recency' = Tickets(recency, cache, Len(new))
        /\ ref' = OnRef(ref, CommitBlocks(ref, new))
  /\ st' = st + cfg.exc_block_size
  /\ pc' = IF st' < input_length THEN "select" ELSE "finish"
  /\ block_topk' = [u \in Units |-> <<>>]
  /\ topk_cur' = IF use_chunk_topk THEN topk_cur + 1 ELSE topk_cur
  /\ UNCHANGED <<cfg, plan, fed, input_length, kv_length, call_selected, glb_score,
                 use_chunk_topk, calc_cur_list, topk_calc_cur, cached_topk, topk_calls,
                 readouts, streamVars, transferVars>>

\* append: the code after the chunk loop
Finish ==
  /\ pc = "finish"
  /\ SetBook(append_end(Book, input_length))
  /\ input_length' = 0
  /\ st' = 0
  /\ kv_length' = 0
  /\ pc' = "idle"
  /\ UNCHANGED <<cfg, plan, fed, topkVars, block_topk, call_selected, glb_score, recency,
                 cache, ref, streamVars, transferVars>>

Chunk == Select \/ Assemble \/ GlobalAttn \/ EvictPre \/ UpdateScore \/ EvictPost
           \/ AppendGlobal \/ Finish

Next == AppendFree \/ Chunk

NextPlanned == AppendPlanned \/ Chunk

Spec == Init /\ [][Next]_vars

SpecTiny == InitTiny /\ [][NextPlanned]_vars

SpecStream == InitStream /\ [][NextPlanned]_vars

SpecOrder == InitOrder /\ [][NextPlanned]_vars

NextBatched == AppendLong \/ Chunk

SpecBatched == InitBatched /\ [][NextBatched]_vars

SpecBuffer == InitBuffer /\ [][NextPlanned]_vars

SpecHeads == InitHeads /\ [][NextBatched]_vars

(***************************************************************************)
(* A client of TransferingTensor: it makes handles from tensors and from    *)
(* other handles and accesses them in any order, while the copies complete  *)
(* asynchronously.                                                          *)
(***************************************************************************)
\* TransferingTensor(tensor, to_cpu) on a torch.Tensor
NewHandle ==
  /\ pc = "transfer"
  /\ Len(handles) < MaxHandles
  /\ \E src_cuda, to_cpu \in BOOLEAN :
       LET r == TransferInit(src_cuda, to_cpu)
       IN /\ handles' = handles \o r.new
          /\ access' = [NoAccess EXCEPT !.op = IF r.err = "none" THEN "init" ELSE r.err]
  /\ UNCHANGED <<cfg, plan, fed, pc, bookVars, callVars, topkVars, block_topk,
                 call_selected, glb_score, recency, cache, ref, streamVars>>

\* TransferingTensor(handle, to_cpu): "tensor = tensor.get()" first
NewHandleFrom ==
  /\ pc = "transfer"
  /\ Len(handles) < MaxHandles
  /\ \E h \in 1..Len(handles) : \E to_cpu \in BOOLEAN :
       LET hs == TransferGet(handles, h)
           r == TransferInit(hs[h].on_cuda, to_cpu)
       IN /\ handles' = hs \o r.new
          /\ access' = [op |-> "get", h |-> h, name |-> "", waited |-> hs[h].waited]
  /\ UNCHANGED <<cfg, plan, fed, pc, bookVars, callVars, topkVars, block_topk,
                 call_selected, glb_score, recency, cache, ref, streamVars>>

\* the non-blocking copy of a handle completes
CopyDone ==
  /\ pc = "transfer"
  /\ \E h \in 1..Len(handles) :
       /\ ~handles[h].done
       /\ handles' = [handles EXCEPT ![h].done = TRUE]
  /\ UNCHANGED <<cfg, plan, fed, pc, bookVars, callVars, topkVars, block_topk,
                 call_selected, glb_score, recency, cache, ref, streamVars, access>>

\* handle.get()
GetTensor ==
  /\ pc = "transfer"
  /\ \E h \in 1..Len(handles) :
       /\ handles' = TransferGet(handles, h)
       /\ access' = [op |-> "get", h |-> h, name |-> "", waited |-> handles'[h].waited]
  /\ UNCHANGED <<cfg, plan, fed, pc, bookVars, callVars, topkVars, block_topk,
                 call_selected, glb_score, recency, cache, ref, streamVars>>

\* len(handle)
LenQuery ==
  /\ pc = "transfer"
  /\ \E h \in 1..Len(handles) :
       /\ handles' = TransferLen(handles, h)
       /\ access' = [op |-> "len", h |-> h, name |-> "", waited |-> handles'[h].waited]
  /\ UNCHANGED <<cfg, plan, fed, pc, bookVars, callVars, topkVars, block_topk,
                 call_selected, glb_score, recency, cache, ref, streamVars>>

\* handle.<name>
ReadAttr ==
  /\ pc = "transfer"
  /\ \E h \in 1..Len(handles) : \E name \in AttrNames :
       /\ handles' = TransferGetAttr(handles, h, name)
       /\ access' = [op |-> "getattr", h |-> h, name |-> name,
                     waited |-> handles'[h].waited]
  /\ UNCHANGED <<cfg, plan, fed, pc, bookVars, callVars, topkVars, block_topk,
                 call_selected, glb_score, recency, cache, ref, streamVars>>

NextTransfer == NewHandle \/ NewHandleFrom \/ CopyDone \/ GetTensor \/ LenQuery \/ ReadAttr

SpecTransfer == InitTransfer /\ [][NextTransfer]_vars

NextNew == Construct \/ ConstructOther \/ AppendFree \/ Chunk

SpecNew == InitNew /\ [][NextNew]_vars

(***************************************************************************)
(* Properties.                                                             *)
(***************************************************************************)
Resident(u) == DictKeys(cache.cached_blocks[u])
NumResident(u) == Len(cache.cached_blocks[u])

RECURSIVE Flatten(_)
Flatten(ss) == IF ss = <<>> THEN <<>> ELSE Head(ss) \o Flatten(Tail(ss))

TinyDone == pc = "idle" /\ plan = <<>> /\ fed = Sum(TinyPlan)

\* C1 (as claimed): in the Tiny scenario, after the appends of lengths 2, 2
\* and 10, num_global_block = 5, init_k.len = 2, local_k.len = 4,
\* remainder.len = 0 and size() = 14.
C1_TinyAsClaimed ==
  TinyDone => /\ num_global_block = 5
              /\ Len(init_k) = 2
              /\ Len(local_k) = 4
              /\ Len(global_remainder) = 0
              /\ size(Book) = 14

\* C1 (amended): in the Tiny scenario, after the appends of lengths 2, 2 and
\* 10, num_global_block = 4, init_k.len = 2, local_k.len = 4,
\* remainder.len = 4 (the last n_local tokens stay in the remainder) and
\* size() = 14.
C1_Tiny ==
  TinyDone => /\ num_global_block = 4
              /\ Len(init_k) = 2
              /\ Len(local_k) = 4
              /\ Len(global_remainder) = 4
              /\ size(Book) = 14

C1_Witness == TinyDone /\ num_global_block = 4 /\ Len(global_remainder) = 4

\* C2: after every append call num_global_block * block_size + init_k.len +
\* remainder.len = size(), and the initial prefix, the committed blocks and
\* the remainder, in this order, hold every token fed so far exactly once.
C2_TokenConservation ==
  pc = "idle" =>
    /\ num_global_block * cfg.block_size + Len(init_k) + Len(global_remainder) = size(Book)
    /\ init_k \o Flatten(Book.blocks) \o global_remainder = Tokens(0, size(Book))

C2_Witness ==
  /\ pc = "idle"
  /\ num_global_block >= 2
  /\ Len(init_k) >= 1
  /\ Len(global_remainder) >= 1

\* C3: size() equals the sum of the input lengths of all append calls made
\* so far, 0 before the first call.
C3_SizeIsSumOfInputs == pc = "idle" => size(Book) = fed

C3_Witness == pc = "idle" /\ size(Book) > MaxIn /\ size(Book) = fed

\* C4 (as claimed): in every reachable state the number of resident blocks
\* of every unit is at most max_cached_block.
C4_ResidentBoundAlways ==
  \A u \in Units : NumResident(u) <= cfg.max_cached_block

\* the positions of a chunk between its load loop and its eviction pass
InChunkWindow ==
  \/ pc \in {"assemble", "attend", "evict_pre"}
  \/ cfg.cache_strategy = "lru-s" /\ pc \in {"score", "evict_post"}

\* C4 (amended): the number of resident blocks of every unit is at most
\* max_cached_block outside the window between a chunk's load loop and its
\* eviction pass, and at most max_cached_block + topk in every state.
C4_ResidentBound ==
  \A u \in Units :
    /\ NumResident(u) <= cfg.max_cached_block + cfg.topk
    /\ (pc # "failed" /\ ~InChunkWindow) => NumResident(u) <= cfg.max_cached_block

C4_Witness ==
  /\ pc = "attend"
  /\ \E u \in Units : NumResident(u) > cfg.max_cached_block

\* the positions of append after the eviction pass of the current chunk
AfterEvict ==
  \/ pc \in {"commit", "finish", "idle"}
  \/ cfg.cache_strategy # "lru-s" /\ pc \in {"score", "evict_post"}

\* C5: after every eviction pass, hence after every execution chunk and
\* every append call, every unit has at most max_cached_block resident
\* blocks, under lru, fifo and lru-s.
C5_ResidentAfterEvict ==
  AfterEvict => \A u \in Units : NumResident(u) <= cfg.max_cached_block

C5_Witness ==
  /\ pc = "commit"
  /\ cfg.cache_strategy = "lru-s"
  /\ \E u \in Units : cache.evicted[u] # <<>> /\ NumResident(u) = cfg.max_cached_block

\* C6 (as claimed): every block id selected by top-k during an append call
\* stays resident until that append call returns.
C6_SelectedResidentForCall ==
  pc \notin {"idle", "failed"} => \A u \in Units : call_selected[u] \subseteq Resident(u)

\* C6 (amended): every block id selected by a chunk's top-k is resident
\* from its load until the eviction pass of that chunk.
C6_SelectedResidentForChunk ==
  InChunkWindow => \A u \in Units : Range(block_topk[u]) \subseteq Resident(u)

C6_Witness ==
  /\ pc = "evict_pre"
  /\ \E u \in Units : /\ Len(block_topk[u]) = 2
                      /\ Range(block_topk[u]) \subseteq Resident(u)
                      /\ NumResident(u) > cfg.max_cached_block

\* C7: when the global-attention stage of a chunk is submitted, every block
\* id of the chunk's top-k list is resident, its storage is on the device,
\* and it is in the assembled block_map of its unit.
C7_TopkAssembled ==
  pc = "attend" =>
    \A u \in Units : \A i \in Range(block_topk[u]) :
      /\ i \in Resident(u)
      /\ cache.global_blocks[u][i + 1].is_cuda
      /\ i \in Range(cache.global_block_map[u])

C7_Witness ==
  /\ pc = "attend"
  /\ \E u \in Units : /\ block_topk[u] # <<>>
                      /\ NumResident(u) > cfg.max_calc_block
                      /\ Range(block_topk[u]) \subseteq Range(cache.global_block_map[u])

\* the second run, fed the same loads and other attention scores, has made
\* the same evictions
EvictionsAgree ==
  /\ ref.err = "none"
  /\ \A u \in Units : /\ ref.evicted[u] = cache.evicted[u]
                      /\ DictKeys(ref.cached_blocks[u]) = Resident(u)

C9_EvictionOrder ==
  (pc = "score" /\ cfg.cache_strategy \in {"lru", "fifo"}) =>
    \A u \in Units :
      /\ NumResident(u) <= cfg.max_cached_block
      /\ cache.evicted[u] # <<>> => NumResident(u) = cfg.max_cached_block
      /\ \A e \in Range(cache.evicted[u]) : \A r \in Resident(u) :
           recency.of[u][e + 1] < recency.of[u][r + 1]

\* C9 restricted to managers that request no block scores
C9_EvictionOrderNoScores == ~cfg.calc_block_score => C9_EvictionOrder

\* what stream equivalence compares of a manager
View(b) ==
  [size |-> size(b), init_k |-> b.init_k, blocks |-> b.blocks,
   remainder |-> b.global_remainder, local_k |-> b.local_k]

\* the manager that is fed the whole stream in one append call
OneCall == append(EmptyBook, fed + Sum(plan))

StreamEnd == pc = "idle" /\ plan = <<>> /\ fed > 0

\* the final state is that of the one-call run
SameFinalState == StreamEnd => View(Book) = View(OneCall)

\* every query token of the running chunk sees the committed blocks it sees
\* in the one-call run
SameBlocksAvailable ==
  \A i \in 1..(ChunkEnd(st, input_length) - st) :
    num_global_block = OneCall.avail[fed - input_length + st + i]

\* C10 (as claimed): N tokens fed in N / c calls of length c, c a divisor
\* of n_local, give the final state of one call of length N and, for every
\* query token, the same committed blocks available to its global attention.
C10_StreamEquivalence ==
  /\ SameFinalState
  /\ pc = "attend" => SameBlocksAvailable

\* C10 (amended): N tokens fed in N / c calls of length c, c a divisor of
\* n_local, give the final state of one call of length N; every query token
\* has the same committed blocks available when c is a multiple of
\* exc_block_size.
C10_StreamEquivalenceAligned ==
  /\ SameFinalState
  /\ (pc = "attend" /\ input_length % cfg.exc_block_size = 0) => SameBlocksAvailable

C10_Witness ==
  /\ pc = "attend"
  /\ plan = <<>>
  /\ fed >= 3 * input_length
  /\ input_length % cfg.exc_block_size = 0
  /\ num_global_block >= 2
  /\ SameBlocksAvailable

\* the manager runs in batched top-k mode with chunk_topk_calc a multiple of
\* exc_block_size
BatchedMode == use_chunk_topk /\ cfg.chunk_topk_calc % cfg.exc_block_size = 0

\* C11: with chunk_topk_calc a multiple of exc_block_size every execution
\* chunk uses block ids that the single-query selection over the
\* representatives committed so far can return.
C11_ChunkedTopkEquivalence ==
  (pc = "assemble" /\ BatchedMode) => block_topk \in SingleQueryTopk

\* C11 restricted to chunk_topk_calc = exc_block_size, where every
\* execution chunk has a batched selection of its own
C11_EquivalencePerChunk ==
  cfg.chunk_topk_calc = cfg.exc_block_size => C11_ChunkedTopkEquivalence

\* no execution chunk failed on calc_cur_list or _cached_topk
TopkInRange ==
  cache.err \notin {"IndexError: calc_cur_list", "AssertionError: calc_cur_list",
                    "IndexError: _cached_topk"}

NoCarryOver == cfg.score_decay = 0 /\ cfg.calc_block_score

\* the ids of block_map[u] that are not resident
MapNotResident(u) == Range(cache.global_block_map[u]) \ Resident(u)

\* a completed score update leaves every id of block_map[u] resident with
\* the contribution of the chunk as its value, and every other resident
\* block with the value 0
ScoreReplaced ==
  (pc = "score" /\ pc' = "evict_post" /\ NoCarryOver) =>
    \A u \in Units :
      /\ \A j \in 1..Len(cache.global_block_map[u]) :
           LET id == cache.global_block_map[u][j]
           IN /\ DictHas(cache'.cached_blocks[u], id)
              /\ DictGet(cache'.cached_blocks[u], id) = glb_score.val[u][j]
      /\ \A id \in DictKeys(cache'.cached_blocks[u]) \ Range(cache.global_block_map[u]) :
           DictGet(cache'.cached_blocks[u], id) = 0

\* the eviction pass after the score update changes no value
EvictKeepsValues ==
  (pc = "evict_post" /\ NoCarryOver) =>
    \A u \in Units : \A id \in DictKeys(cache'.cached_blocks[u]) :
      DictGet(cache'.cached_blocks[u], id) = DictGet(cache.cached_blocks[u], id)

ProcessedEnd == fed - input_length + Min(st, input_length)

\* the tokens of the committed blocks
BlockTokens == Range(Flatten(Book.blocks))

\* C14: a committed block has at least n_local tokens of the remainder
\* behind it; after every append call the remainder holds at least
\* min(size(), n_local) tokens, the local window is its tail and no token
\* of the local window is in a committed block.
C14_CommitKeepsLocalWindow ==
  /\ \A i \in 1..Len(Book.blocks) :
       Book.blocks[i][cfg.block_size] + cfg.n_local < ProcessedEnd
  /\ pc = "idle" =>
       /\ Len(global_remainder) >= Min(size(Book), cfg.n_local)
       /\ local_k = Last(global_remainder, Len(local_k))
       /\ Range(local_k) \cap BlockTokens = {}

C14_Witness ==
  /\ pc = "idle"
  /\ num_global_block >= 2
  /\ Len(global_remainder) = cfg.n_local
  /\ Book.blocks[num_global_block][cfg.block_size] + cfg.n_local = fed - 1

\* C15: after every append call remainder.len < n_local + block_size: no
\* full block of the remainder lies n_local or more tokens before its end.
C15_RemainderBound ==
  pc \in {"idle", "finish"} =>
    /\ global_remainder_ed - global_remainder_st < cfg.n_local + cfg.block_size
    /\ pc = "idle" => Len(global_remainder) < cfg.n_local + cfg.block_size

C15_Witness ==
  /\ pc = "idle"
  /\ num_global_block >= 1
  /\ cfg.block_size >= 2
  /\ Len(global_remainder) = cfg.n_local + cfg.block_size - 1

\* the initial prefix holds the first tokens of the stream, is full once
\* init_exc is set, and no block is committed before
InitPrefixState ==
  /\ init_k = Tokens(0, Len(init_k))
  /\ Len(init_k) <= cfg.n_init
  /\ init_exc => Len(init_k) = cfg.n_init
  /\ ~init_exc => num_global_block = 0

\* the initial prefix only grows, and not at all once init_exc is set
InitPrefixStep ==
  /\ init_exc => init_exc' /\ init_k' = init_k
  /\ Len(init_k') >= Len(init_k)
  /\ SubSeq(init_k', 1, Len(init_k)) = init_k

\* C16: init_exc never goes from true back to false; once it is true
\* init_k holds exactly the first n_init tokens ever appended, in every
\* later state; no block is committed while init_exc is false.
C16_InitPrefixFrozen == []InitPrefixState /\ [][InitPrefixStep]_vars

C16_Witness ==
  /\ pc = "idle"
  /\ init_exc
  /\ cfg.n_init = 2
  /\ init_k = <<0, 1>>
  /\ num_global_block >= 2

\* C17: after every append call local_k.len <= n_local and
\* init_k.len <= n_init.
C17_WindowAndPrefixBounds ==
  pc = "idle" => Len(local_k) <= cfg.n_local /\ Len(init_k) <= cfg.n_init

C17_Witness ==
  /\ pc = "idle"
  /\ cfg.n_init >= 1
  /\ Len(init_k) = cfg.n_init
  /\ Len(local_k) = cfg.n_local
  /\ fed > cfg.n_local + cfg.n_init + 1

\* C18: for every unit the number of committed blocks, num_global_block
\* and the length of the representative index are equal, and block i holds
\* the block_size consecutive tokens that follow the initial prefix and the
\* blocks 0..i-1.
C18_DenseBlockIds ==
  \A u \in Units :
    /\ Len(cache.global_blocks[u]) = num_global_block
    /\ block_k = num_global_block
    /\ \A i \in 0..(num_global_block - 1) :
         cache.global_blocks[u][i + 1].toks =
           Tokens(cfg.n_init + i * cfg.block_size, cfg.block_size)

C18_Witness ==
  /\ pc = "select"
  /\ cfg.num_units = 2
  /\ cfg.n_init >= 1
  /\ num_global_block >= 2
  /\ Len(cache.global_blocks[1]) = num_global_block

\* C19: every resident block id of every unit is at least 0 and less than
\* num_global_block, in single-query and in batched top-k mode.
C19_ResidentIdsInRange ==
  \A u \in Units : \A id \in Resident(u) : 0 <= id /\ id < num_global_block

C19_Witness ==
  /\ pc = "attend"
  /\ BatchedMode
  /\ num_global_block >= 2
  /\ \E u \in Units : (num_global_block - 1) \in Resident(u)

\* C20: a manager with cache_strategy = "lru-s" and calc_block_score =
\* false is rejected by the constructor and never usable.
C20_LruSNeedsScores ==
  (cfg.cache_strategy = "lru-s" /\ ~cfg.calc_block_score) => pc \in {"new", "invalid"}

C20_Witness ==
  /\ pc = "invalid"
  /\ cfg.cache_strategy = "lru-s"
  /\ ~cfg.calc_block_score
  /\ cfg.max_calc_block >= cfg.topk
  /\ cfg.exc_block_size <= cfg.n_local

\* the construction-parameter contracts of the interface
ContractsHold(c) ==
  /\ c.exc_block_size <= c.n_local
  /\ c.max_calc_block >= c.topk
  /\ c.max_cached_block >= c.topk
  /\ c.cache_strategy \in {"lru", "fifo", "lru-s"}

\* C21: every violation of a construction-parameter contract
\* (exc_block_size > n_local, max_calc_block < topk, max_cached_block < topk,
\* cache_strategy outside {lru, fifo, lru-s}) makes the constructor fail:
\* a manager exists only for parameters that meet all four contracts.
C21_ContractViolationsRejected ==
  pc \notin {"new", "invalid"} => ContractsHold(cfg)

\* lru or fifo manager that computes block scores and meets the contracts
\* max_cached_block >= topk and max_calc_block >= topk
ScoredRecencyPolicy ==
  /\ cfg.cache_strategy \in {"lru", "fifo"}
  /\ cfg.calc_block_score
  /\ cfg.max_cached_block >= cfg.topk
  /\ cfg.max_calc_block >= cfg.topk

\* C22: under lru and fifo with calc_block_score = true, max_cached_block >=
\* topk and max_calc_block >= topk, every id of block_map[u] is resident
\* when the score update of the chunk runs, and update_block_score never
\* fails on a missing id.
C22_ScoreUpdateOnResident ==
  ScoredRecencyPolicy =>
    /\ cache.err # "KeyError"
    /\ pc = "score" => \A u \in Units : MapNotResident(u) = {}

\* the value stored for every resident block is its recency ticket, and no
\* two resident blocks of a unit have the same value
ValuesAreTickets ==
  \A u \in Units :
    LET d == cache.cached_blocks[u]
    IN /\ \A i \in 1..Len(d) : d[i][2] = recency.of[u][d[i][1] + 1]
       /\ \A i, j \in 1..Len(d) : i # j => d[i][2] # d[j][2]

\* C23: under lru and fifo the value stored for a resident block is always
\* the recency ticket issued by load_count at its load (fifo) or last access
\* (lru); the tickets of a unit are unique and the score update does not
\* change them, also when calc_block_score = true.
C23_ValuesAreTickets ==
  cfg.cache_strategy \in {"lru", "fifo"} => ValuesAreTickets

\* C23 restricted to managers that request no block scores
C23_TicketsWithoutScores ==
  (cfg.cache_strategy \in {"lru", "fifo"} /\ ~cfg.calc_block_score) => ValuesAreTickets

\* the number of candidate blocks of unit u in the next Assembler build
NumCandidates(u) == Min(NumResident(u), cfg.max_calc_block)

\* C24: in every Assembler build block_num = min(|resident[u]|,
\* max_calc_block) is the same for all units, so the assertion
\* block_num == len(block_score) never fails, also with max_calc_block >
\* topk and units whose top-k selections differ.
C24_BlockNumEqualAcrossUnits ==
  /\ cache.err # "AssertionError: block_num"
  /\ pc = "assemble" => \A u, v \in Units : NumCandidates(u) = NumCandidates(v)

\* C24 restricted to managers with max_calc_block = topk
C24_BlockNumEqualAtTopk ==
  cfg.max_calc_block = cfg.topk => C24_BlockNumEqualAcrossUnits

\* the ids of the candidate blocks of unit u for the selection block_topk
CandidateIds(u) ==
  LET cand == Candidates(cache.cached_blocks[u], block_topk[u])
  IN {cand[i][1] : i \in 1..Len(cand)}

\* a slot of the previous map that a new candidate may take
FreeSlot(u, j) ==
  LET old == cache.global_buffer_block_id_list[u]
  IN old[j] = -1 \/ old[j] \notin CandidateIds(u)

\* an Assembler build with the persistent buffer keeps every candidate in
\* the slot it had, puts each new candidate into the lowest slot whose
\* occupant is empty or no candidate, and leaves in block_map[u] exactly the
\* candidates, once each, in the slots below block_num and nothing above
BufferBuild ==
  (pc = "assemble" /\ pc' = "attend" /\ cfg.use_buffer) =>
    \A u \in Units :
      LET old == cache.global_buffer_block_id_list[u]
          new == cache'.global_buffer_block_id_list[u]
          block_num == cache'.global_block_num
          placed == {j \in 1..Len(new) : new[j] # -1 /\ new[j] \notin Range(old)}
      IN /\ \A j \in 1..Len(old) : old[j] \in CandidateIds(u) => new[j] = old[j]
         /\ \A j \in placed :
              /\ FreeSlot(u, j)
              /\ \A i \in 1..(j - 1) : FreeSlot(u, i) => i \in placed
         /\ cache'.global_block_map[u] = SubSeq(new, 1, block_num)
         /\ Range(cache'.global_block_map[u]) = CandidateIds(u)
         /\ Cardinality(CandidateIds(u)) = block_num
         /\ \A j \in (block_num + 1)..Len(new) : new[j] = -1

\* every occupied slot of the persistent buffer holds the keys of the block
\* mapped to it
SlotsHoldBlocks ==
  (pc = "attend" /\ cfg.use_buffer) =>
    \A u \in Units : \A j \in 1..Len(cache.global_block_map[u]) :
      SubSeq(cache.global_buffer[u], (j - 1) * cfg.block_size + 1, j * cfg.block_size)
        = cache.global_blocks[u][cache.global_block_map[u][j] + 1].toks

\* C25: with use_buffer, in every Assembler build a candidate that was at
\* slot j of the previous block_map[u] stays at slot j, each new candidate
\* takes the lowest slot whose occupant is empty or not a candidate,
\* block_map[u][0..block_num) is exactly the candidate set without
\* duplicates, every slot >= block_num is empty (the assertions at the end
\* of the build never fail) and every occupied slot's buffer region holds
\* the K/V of its block, for every configuration with max_cached_block >=
\* topk and max_calc_block >= topk.
C25_BufferSlots ==
  /\ [][BufferBuild]_vars
  /\ []((cfg.use_buffer /\ cfg.max_cached_block >= cfg.topk /\ cfg.max_calc_block >= cfg.topk)
          => cache.err # "AssertionError: global_block_map")
  /\ []SlotsHoldBlocks

\* the parts of C25 that hold of every build that completes
C25_CompletedBuilds == [][BufferBuild]_vars /\ []SlotsHoldBlocks

\* C25 restricted to managers with max_cached_block >= max_calc_block
C25_BufferSlotsLargeCache ==
  [](cfg.max_cached_block >= cfg.max_calc_block
       => cache.err # "AssertionError: global_block_map")

\* capacity of the tensor the Assembler writes to
Capacity == IF cfg.use_buffer THEN BufferLen ELSE TotalLen

\* the length assembled for the global stage of the running chunk: the
\* candidate blocks, the initial prefix and, unless it is ignored, the
\* remainder window
AssembledLen ==
  cache.global_block_num * cfg.block_size + Len(init_k)
    + (IF WithRemainder THEN GlobalRemainderLen(ChunkEnd(st, input_length) - st) ELSE 0)

\* C26: in every chunk of every append call the length assembled for the
\* global stage (block_num * block_size + init_k.len + the appended
\* remainder window) is at most the capacity of the buffer allocated at
\* initialisation, with ignore_remainder = false and with ignore_remainder
\* = true, and no copy into the buffer fails.
C26_AssembledFitsBuffer ==
  /\ cache.err \notin {"RuntimeError: copy_", "RuntimeError: copy_ init",
                       "RuntimeError: copy_ remainder"}
  /\ pc = "attend" =>
       /\ AssembledLen <= Capacity
       /\ \A u \in Units : Len(cache.global_h_k[u]) = AssembledLen

\* C26 restricted to managers that do not ignore the remainder
C26_FitsWithRemainder == ~cfg.ignore_remainder => C26_AssembledFitsBuffer

\* C26 restricted to execution chunks of at most max_calc_block *
\* block_size + 1 tokens
C26_FitsShortChunks ==
  cfg.exc_block_size <= cfg.max_calc_block * cfg.block_size + 1 => C26_AssembledFitsBuffer

\* the assembled keys are tokens: no position of the assembled tensor is
\* left unwritten
C26_NoUnwrittenKeys ==
  pc = "attend" => \A u \in Units : \A i \in 1..Len(cache.global_h_k[u]) :
                     cache.global_h_k[u][i] >= 0

\* position of block id in the insertion order of the dict d
DictPos(d, id) == CHOOSE i \in 1..Len(d) : d[i][1] = id

\* block a goes before block b in an eviction pass over d when ties are
\* broken by id
BeforeById(d, a, b) ==
  \/ DictGet(d, a) < DictGet(d, b)
  \/ DictGet(d, a) = DictGet(d, b) /\ a < b

\* the same when ties are broken by the insertion order of d
BeforeByInsertion(d, a, b) ==
  \/ DictGet(d, a) < DictGet(d, b)
  \/ DictGet(d, a) = DictGet(d, b) /\ DictPos(d, a) < DictPos(d, b)

\* a step of the eviction pass of a chunk that completes
EvictionPass ==
  /\ \/ pc = "evict_pre" /\ cfg.cache_strategy # "lru-s"
     \/ pc = "evict_post" /\ cfg.cache_strategy = "lru-s"
  /\ cache'.err = "none"

\* C27 (as claimed): when several resident blocks of a unit have the same
\* eviction value, the eviction pass offloads the block with the lower id
\* first.
C27_TieBreakLowerId ==
  [][EvictionPass =>
       \A u \in Units :
         LET d == cache.cached_blocks[u]
             ev == cache'.evicted[u]
         IN /\ \A i \in 1..Len(ev) : \A r \in DictKeys(cache'.cached_blocks[u]) :
                 BeforeById(d, ev[i], r)
            /\ \A i, j \in 1..Len(ev) : i < j => BeforeById(d, ev[i], ev[j])]_vars

\* C27 (amended): the eviction pass offloads the blocks of smallest value;
\* among resident blocks of the same value it offloads first the one that
\* was inserted into resident[u] earlier (the one loaded earlier), whatever
\* the ids are.
C27_TieBreakInsertionOrder ==
  [][EvictionPass =>
       \A u \in Units :
         LET d == cache.cached_blocks[u]
             ev == cache'.evicted[u]
         IN /\ \A i \in 1..Len(ev) : \A r \in DictKeys(cache'.cached_blocks[u]) :
                 BeforeByInsertion(d, ev[i], r)
            /\ \A i, j \in 1..Len(ev) : i < j => BeforeByInsertion(d, ev[i], ev[j])]_vars

\* a block was offloaded although a resident block of the same value (the
\* smallest one, 0) has a lower id
C27_Witness ==
  /\ pc = "commit"
  /\ cfg.cache_strategy = "lru-s"
  /\ \E u \in Units : \E i \in 1..Len(cache.evicted[u]) : \E r \in Resident(u) :
       /\ r < cache.evicted[u][i]
       /\ DictGet(cache.cached_blocks[u], r) = 0

\* the storage of block i of unit u is on the device
OnDevice(u, i) == cache.global_blocks[u][i + 1].is_cuda

BlockIds(u) == 0 .. (Len(cache.global_blocks[u]) - 1)

\* a block is on the device exactly when it is resident, and no is_cuda
\* assertion of load_block or of the transfer has failed
DeviceIffResident ==
  /\ cache.err \notin {"AssertionError: is_cuda", "AssertionError: not is_cuda"}
  /\ \A u \in Units : /\ Resident(u) \subseteq BlockIds(u)
                      /\ \A i \in BlockIds(u) : OnDevice(u, i) <=> i \in Resident(u)

\* offload_block of an id that is not resident changes nothing
OffloadNonResident ==
  \A u \in Units : \A i \in BlockIds(u) \ Resident(u) : offload_block(cache, u, i) = cache

\* blocks are never removed from global_blocks[u] and keep their tokens; a
\* newly committed block is on the host and not resident; a load leaves the
\* selected blocks resident; an eviction pass leaves the offloaded blocks
\* not resident
BlockMoves ==
  \A u \in Units :
    LET old == cache.global_blocks[u]
        new == cache'.global_blocks[u]
    IN /\ Len(new) >= Len(old)
       /\ \A i \in 1..Len(old) : new[i].toks = old[i].toks
       /\ \A i \in (Len(old) + 1)..Len(new) :
            ~new[i].is_cuda /\ ~DictHas(cache'.cached_blocks[u], i - 1)
       /\ (pc = "select" /\ pc' = "assemble") =>
            Range(block_topk'[u]) \subseteq DictKeys(cache'.cached_blocks[u])
       /\ (pc \in {"evict_pre", "evict_post"} /\ cache'.err = "none") =>
            Range(cache'.evicted[u]) \cap DictKeys(cache'.cached_blocks[u]) = {}

\* C28: a block's storage is on the device exactly when its id is in
\* resident[u]: a newly committed block is on the host and not resident, a
\* load moves it to the device and inserts it, an offload moves it back and
\* removes it, an offload of a non-resident id changes nothing, blocks are
\* never removed from global_blocks[u], and the is_cuda assertions of
\* load_block and of the transfer never fail.
C28_DeviceIffResident ==
  /\ [](DeviceIffResident /\ OffloadNonResident)
  /\ [][BlockMoves]_vars

\* a block was loaded and offloaded again, another one is resident, and the
\* newest block has never been loaded
C28_Witness ==
  /\ pc = "commit"
  /\ \E u \in Units :
       /\ \E e \in Range(cache.evicted[u]) : ~OnDevice(u, e) /\ e \notin Resident(u)
       /\ \E r \in Resident(u) : OnDevice(u, r)
       /\ ~OnDevice(u, Len(cache.global_blocks[u]) - 1)

\* C29: for every manager, whatever its async_global_stream setting and
\* whatever managers were constructed before it, the global-attention stage
\* of a chunk is issued on the compute stream only after the compute stream
\* has waited for the global stream's top-k, block loading and assembly of
\* that chunk (or that work was issued on the compute stream itself).
C29_GlobalAttnAfterAssembly ==
  pc = "attend" => (issued_on = "current" \/ waited)

\* C29 restricted to managers with async_global_stream = true
C29_AsyncManagersWait ==
  cfg.async_global_stream => C29_GlobalAttnAfterAssembly

\* C29 restricted to processes in which no manager has created the global
\* stream
C29_NoGlobalStream ==
  GLOBAL_STREAM = "none" => C29_GlobalAttnAfterAssembly

\* a manager with async_global_stream = true never runs without the global
\* stream
C29_AsyncHasStream ==
  (cfg.async_global_stream /\ pc \notin {"new", "invalid"}) => GLOBAL_STREAM = "stream"

\* the last operation was an access to a transfer handle
Accessed == access.op \in {"get", "len", "getattr"}

\* C30: every access to the tensor held by a transfer handle (length
\* query, attribute read such as is_cuda, get) is preceded by a wait on the
\* handle's completion event.
C30_AccessAfterWait == Accessed => access.waited

\* the accesses that hand out the tensor or an attribute looked up on the
\* tensor by __getattr__ are preceded by a wait
C30_TensorReadsAfterWait ==
  (access.op = "get" \/ (access.op = "getattr" /\ access.name \notin OwnAttributes))
    => access.waited

\* the selection sel is right for n committed blocks: every id when
\* n <= topk, otherwise topk distinct ids below n, for every unit
SelectionOk(sel, n) ==
  \A u \in Units :
    IF n <= cfg.topk
      THEN sel[u] = [i \in 1..n |-> i - 1]
      ELSE /\ Len(sel[u]) = cfg.topk
           /\ \A i, j \in 1..Len(sel[u]) : i # j => sel[u][i] # sel[u][j]
           /\ \A i \in 1..Len(sel[u]) : sel[u][i] \in 0..(n - 1)

ShapeErrors == {"AssertionError: flat_to_unit", "ValueError: flat_to_unit"}

\* C31: the selector returns, for every unit and every window, all
\* committed block ids when num_global_block <= topk and otherwise exactly
\* topk distinct ids below num_global_block, in single-query mode and in
\* batched chunk mode, with per-batch units and with per-head units of
\* more than one head, and no shape assertion fails.
C31_SelectorReturns ==
  /\ cache.err \notin ShapeErrors
  /\ pc = "assemble" => SelectionOk(block_topk, num_global_block)

\* in single-query mode the selection is right in both unit modes
C31_SingleQuerySelection ==
  (pc = "assemble" /\ ~use_chunk_topk) => SelectionOk(block_topk, num_global_block)

\* with per-batch units, or one head, no shape assertion fails
C31_PerBatchShapes ==
  (~cfg.perhead \/ cfg.num_heads = 1) => cache.err \notin ShapeErrors

\* what get_batched_topk returns is right for the blocks committed when it
\* is called, for every window
C31_BatchedAtCall ==
  (pc = "assemble" /\ use_chunk_topk /\ topk_cur = 0) =>
    \A j \in 1..Len(cached_topk) : SelectionOk(cached_topk[j], num_global_block)

====
